---- MODULE Spec2Model ----
(***************************************************************************)
(* daf-mappa-quartiere: the evaluation grid (GridMaker, process_tools.py)  *)
(* and the service-unit loaders (UnitFactory and children, factories.py).  *)
(*                                                                         *)
(* Lengths are integers in one fixed unit (think of 50 m): the code's      *)
(* floats only enter through floor division and comparisons with 0.       *)
(***************************************************************************)
EXTENDS Integers, Sequences, FiniteSets, TLC

(***************************************************************************)
(* Bounds of the model.                                                    *)
(***************************************************************************)
\* largest axis length of the city's bounding box, in length units
MaxKm == 3
\* largest number of raw records in one service file
MaxUnits == 3

(***************************************************************************)
(* GridMaker: inputs.                                                      *)
(***************************************************************************)
\* gridStep values handed to GridMaker: negative, zero, smaller and larger
\* than an axis
GridSteps == {-2, 0, 2, 4}

\* the identifier column of the quartieri table, by row index
IdQuartiereCol == (0 :> "Q0") @@ (1 :> "Q1")

\* row indices of the quartieri table: range(shape[0])
Rows == DOMAIN IdQuartiereCol

\* np.nan, the "no zone" marker
NaN == "nan"

\* the content of an object array cell np.empty_like leaves unassigned
PyNone == "None"

\* What the polygons say of one lattice point: inB is
\* cityBoundary.contains(point), zs the rows whose polygon contains it. The
\* boundary is the union of the polygons, so a point inside a polygon is
\* inside the boundary; a point on an edge shared by two polygons is inside
\* the boundary and inside no polygon.
PointGeometries ==
    {[inB |-> FALSE, zs |-> {}]} \cup {[inB |-> TRUE, zs |-> z] : z \in SUBSET Rows}

VARIABLES
    \* GridMaker
    gridStep,       \* the gridStep argument
    longKm,         \* longitudeRangeKm
    latKm,          \* latitudeRangeKm
    geom,           \* the containment facts of the lattice points tested so far
    gpc,            \* position in GridMaker.__init__
    gerr,           \* the exception that ended it
    longNGrid,
    latNGrid,
    kPoint,         \* position of np.ndenumerate in the lattice
    bInPerimeter,   \* _bInPerimeter, for the points visited
    IDquartiere,    \* _IDquartiere, for the points visited
    scanned,        \* the (point, row) pairs whose polygon test was run
    grid,           \* the filtered frame
    fullGrid,       \* the full frame
    produced,       \* which of the two frames exist
    run,            \* 1: first construction, 2: second one on the same inputs
    firstRun        \* what the first construction produced

VARIABLES
    \* factories
    factory,          \* the servicetype of the loader
    rawData,          \* _rawData, one record per row of the file
    meanRadius,       \* the argument of load: <<>> is None, <<r>> a number
    lpc,              \* position in load
    lerr,             \* the exception that ended it
    scaleData,        \* SchoolFactory: the ALUNNI column after rescaling
    thresholdsDict,   \* TransportStopFactory: thresholds cached by route type
    cachedThresholds, \* PharmacyFactory: the one cached value
    unitList,         \* the units created so far
    returned          \* <<>> until load returns, then <<unitList>>

VARIABLES
    \* make_loaders_for_city
    cityServices,     \* modelCity.keys(), in the order of the dict
    loaders,          \* the dict built so far: label -> <<loader>>, <<>> is None
    cpc               \* position in make_loaders_for_city

cityVars == <<cityServices, loaders, cpc>>

loadVars == <<factory, rawData, meanRadius, lpc, lerr, scaleData,
              thresholdsDict, cachedThresholds, unitList, returned>>

gridVars == <<gridStep, longKm, latKm, geom, gpc, gerr, longNGrid, latNGrid,
              kPoint, bInPerimeter, IDquartiere, scanned, grid, fullGrid,
              produced, run, firstRun>>

vars == <<gridVars, loadVars, cityVars>>

\* the state before make_loaders_for_city is called
CityIdle ==
    /\ cityServices = <<>>
    /\ loaders = <<>>
    /\ cpc = "start"

\* the state before any loader is used
LoadIdle ==
    /\ factory = "School"
    /\ rawData = <<>>
    /\ meanRadius = <<>>
    /\ lpc = "start"
    /\ lerr = "none"
    /\ scaleData = <<>>
    /\ thresholdsDict = <<>>
    /\ cachedThresholds = <<>>
    /\ unitList = <<>>
    /\ returned = <<>>

(***************************************************************************)
(* GridMaker: pure parts.                                                  *)
(***************************************************************************)
\* Python's a // b for b # 0: the floor of the quotient
FloorDiv(a, b) == IF b > 0 THEN a \div b ELSE (0 - a) \div (0 - b)

NGridNoPlusOne(axisKm, step) == FloorDiv(axisKm, step)

\* int(axisKm // gridStep) + 1
NGridOf(axisKm, step) == FloorDiv(axisKm, step) + 1

\* number of cells of the meshgrid
NPoints == longNGrid * latNGrid

\* the k-th index pair of np.ndenumerate (row-major, as flatten and boolean
\* mask selection are)
PointAt(k) == <<k \div latNGrid, k % latNGrid>>

RECURSIVE SeqOfSet(_)
SeqOfSet(S) ==
    IF S = {} THEN <<>>
    ELSE LET m == CHOOSE x \in S : \A y \in S : x <= y
         IN <<m>> \o SeqOfSet(S \ {m})

RECURSIVE Perms(_)
Perms(S) ==
    IF S = {} THEN {<<>>}
    ELSE UNION {{<<x>> \o p : p \in Perms(S \ {x})} : x \in S}

AnyScanOrder == Perms(Rows)

\* the orders in which the inner loop may visit the rows: range(shape[0])
ScanOrders == {SeqOfSet(Rows)}

ScanAllRows(order, n, zs, tested) ==
    LET hits == {i \in 1..Len(order) : order[i] \in zs}
    IN  IF hits = {}
        THEN [bFound |-> FALSE, iRow |-> -1, tested |-> {order[i] : i \in 1..Len(order)}]
        ELSE [bFound |-> TRUE,
              iRow |-> order[CHOOSE i \in hits : \A j \in hits : j <= i],
              tested |-> {order[i] : i \in 1..Len(order)}]

\* the inner loop from position n of the order: test the polygon, on a hit
\* take the row and break
RECURSIVE ZoneScan(_, _, _, _)
ZoneScan(order, n, zs, tested) ==
    IF n > Len(order)
    THEN [bFound |-> FALSE, iRow |-> -1, tested |-> tested]
    ELSE IF order[n] \in zs
         THEN [bFound |-> TRUE, iRow |-> order[n], tested |-> tested \cup {order[n]}]
         ELSE ZoneScan(order, n + 1, zs, tested \cup {order[n]})

ScanEveryPoint(inB) == TRUE

\* line 71: the zone scan runs for the points inside the boundary only
ScansZones(inB) == inB

NeverAborts(bFound) == FALSE

\* line 82: assert bFound
ScanAborts(bFound) == ~bFound

MaskIgnored(vals, mask) == vals

\* a[mask].flatten(): the cells whose mask is set, in row-major order
RECURSIVE MaskSelect(_, _)
MaskSelect(vals, mask) ==
    IF vals = <<>> THEN <<>>
    ELSE (IF Head(mask) THEN <<Head(vals)>> ELSE <<>>)
         \o MaskSelect(Tail(vals), Tail(mask))

\* the three flattened arrays of the lattice, as one row per cell
Cells == [k \in 1..NPoints |->
            LET p == PointAt(k - 1)
            IN [i |-> p[1], j |-> p[2], idQuartiere |-> IDquartiere[p]]]

Mask == [k \in 1..NPoints |-> bInPerimeter[PointAt(k - 1)]]

(***************************************************************************)
(* GridMaker: the construction.                                            *)
(***************************************************************************)
\* the state before GridMaker is called
GridIdle ==
    /\ geom = <<>>
    /\ gpc = "start"
    /\ gerr = "none"
    /\ longNGrid = 0
    /\ latNGrid = 0
    /\ kPoint = 0
    /\ bInPerimeter = <<>>
    /\ IDquartiere = <<>>
    /\ scanned = {}
    /\ grid = <<>>
    /\ fullGrid = <<>>
    /\ produced = {}
    /\ run = 1
    /\ firstRun = <<>>

GridInit ==
    /\ gridStep \in GridSteps
    /\ longKm \in 1..MaxKm
    /\ latKm \in 1..MaxKm
    /\ GridIdle

\* lines 56-64: the numbers of steps and the meshgrid. A zero step divides by
\* zero; np.linspace refuses a negative number of samples.
ComputeNGrid ==
    /\ gpc = "start"
    /\ IF gridStep = 0
       THEN /\ gpc' = "error"
            /\ gerr' = "ZeroDivisionError"
            /\ UNCHANGED <<longNGrid, latNGrid>>
       ELSE /\ longNGrid' = NGridOf(longKm, gridStep)
            /\ latNGrid' = NGridOf(latKm, gridStep)
            /\ IF longNGrid' < 0 \/ latNGrid' < 0
               THEN gpc' = "error" /\ gerr' = "ValueError"
               ELSE gpc' = "loop" /\ gerr' = gerr
    /\ UNCHANGED <<gridStep, longKm, latKm, geom, kPoint, bInPerimeter,
                   IDquartiere, scanned, grid, fullGrid, produced, run, firstRun>>
    /\ UNCHANGED loadVars
    /\ UNCHANGED cityVars

\* lines 66-85: one iteration of the loop over the lattice
ClassifyPoint ==
    /\ gpc = "loop"
    /\ kPoint < NPoints
    /\ LET p == PointAt(kPoint)
       IN \E g \in (IF p \in DOMAIN geom THEN {geom[p]} ELSE PointGeometries),
             order \in ScanOrders :
            /\ geom' = (p :> g) @@ geom
            /\ bInPerimeter' = (p :> g.inB) @@ bInPerimeter
            /\ IF ScansZones(g.inB)
               THEN LET s == ZoneScan(order, 1, g.zs, {})
                    IN /\ scanned' = scanned \cup {<<p, r>> : r \in s.tested}
                       /\ IDquartiere' =
                            (p :> (IF s.bFound THEN IdQuartiereCol[s.iRow] ELSE PyNone))
                            @@ IDquartiere
                       /\ IF ScanAborts(s.bFound)
                          THEN /\ gpc' = "error"
                               /\ gerr' = "AssertionError"
                               /\ kPoint' = kPoint
                          ELSE /\ kPoint' = kPoint + 1
                               /\ UNCHANGED <<gpc, gerr>>
               ELSE /\ IDquartiere' = (p :> NaN) @@ IDquartiere
                    /\ kPoint' = kPoint + 1
                    /\ UNCHANGED <<scanned, gpc, gerr>>
    /\ UNCHANGED <<gridStep, longKm, latKm, longNGrid, latNGrid, grid,
                   fullGrid, produced, run, firstRun>>
    /\ UNCHANGED loadVars
    /\ UNCHANGED cityVars

\* lines 88-95: the two frames
BuildFrames ==
    /\ gpc = "loop"
    /\ kPoint = NPoints
    /\ grid' = MaskSelect(Cells, Mask)
    /\ fullGrid' = Cells
    /\ produced' = {"grid", "fullGrid"}
    /\ gpc' = "done"
    /\ UNCHANGED <<gridStep, longKm, latKm, geom, gerr, longNGrid, latNGrid,
                   kPoint, bInPerimeter, IDquartiere, scanned, run, firstRun>>
    /\ UNCHANGED loadVars
    /\ UNCHANGED cityVars

\* what a finished construction exposes
Outcome == [longNGrid |-> longNGrid, latNGrid |-> latNGrid,
            grid |-> grid, fullGrid |-> fullGrid]

\* a second GridMaker on the same files and the same gridStep
ConstructAgain ==
    /\ gpc = "done"
    /\ run = 1
    /\ run' = 2
    /\ firstRun' = <<Outcome>>
    /\ gpc' = "start"
    /\ longNGrid' = 0
    /\ latNGrid' = 0
    /\ kPoint' = 0
    /\ bInPerimeter' = <<>>
    /\ IDquartiere' = <<>>
    /\ scanned' = {}
    /\ grid' = <<>>
    /\ fullGrid' = <<>>
    /\ produced' = {}
    /\ UNCHANGED <<gridStep, longKm, latKm, geom, gerr>>
    /\ UNCHANGED loadVars
    /\ UNCHANGED cityVars

GridNext == ComputeNGrid \/ ClassifyPoint \/ BuildFrames \/ ConstructAgain

GridStart == GridInit /\ LoadIdle /\ CityIdle

GridSpec == GridStart /\ [][GridNext]_vars

(***************************************************************************)
(* GridMaker: properties.                                                  *)
(***************************************************************************)
\* the lattice points visited so far
Visited == DOMAIN IDquartiere

\* the place of a cell in the row-major order of the lattice
Rank(c) == c.i * latNGrid + c.j

\* the lowest row whose polygon contains a point with these facts
FirstRow(zs) == CHOOSE r \in zs : \A q \in zs : r <= q

\* C1: every visited point inside the boundary carries the identifier of a
\* polygon that contains it, never the "no zone" marker or an unassigned
\* cell; a point inside the boundary and inside no polygon ends the
\* construction with the failed assertion and neither frame exists; a
\* finished construction has classified every lattice point.
C1_InBoundaryPointHasZone ==
    /\ \A p \in Visited :
          bInPerimeter[p] =>
             IF geom[p].zs = {}
             THEN gpc = "error" /\ gerr = "AssertionError" /\ produced = {}
             ELSE /\ IDquartiere[p] \notin {NaN, PyNone}
                  /\ \E r \in geom[p].zs : IDquartiere[p] = IdQuartiereCol[r]
    /\ gpc = "done" => \A k \in 0..(NPoints - 1) : PointAt(k) \in Visited

\* C1 witness: the construction aborted on a gap after it had assigned a
\* zone to an earlier point
C1_Witness ==
    /\ gpc = "error"
    /\ gerr = "AssertionError"
    /\ \E p \in Visited : bInPerimeter[p] /\ geom[p].zs # {}
    /\ \E p \in Visited : bInPerimeter[p] /\ geom[p].zs = {}

\* C2: for a positive gridStep each axis has floor(length / gridStep) + 1
\* steps (n with (n-1)*step <= length < n*step), at least 1, the meshgrid is
\* built, and the full frame has longNGrid * latNGrid rows.
C2_StepsPerAxis ==
    gridStep > 0 =>
       /\ gpc # "start" => gpc \in {"loop", "done"} \/ gerr = "AssertionError"
       /\ gpc # "start" =>
             /\ (longNGrid - 1) * gridStep <= longKm
             /\ longKm < longNGrid * gridStep
             /\ (latNGrid - 1) * gridStep <= latKm
             /\ latKm < latNGrid * gridStep
             /\ longNGrid >= 1
             /\ latNGrid >= 1
       /\ "fullGrid" \in produced => Len(fullGrid) = longNGrid * latNGrid

\* C2 witness: a finished lattice whose step exceeds the longitude axis and
\* not the latitude axis
C2_Witness ==
    /\ gpc = "done"
    /\ gridStep > longKm
    /\ gridStep <= latKm
    /\ longNGrid = 1
    /\ Len(fullGrid) = latNGrid
    /\ latNGrid > 1

\* C3: the full frame has one row per lattice point, in lattice order, and
\* its rows outside the boundary carry the "no zone" marker; the filtered
\* frame is made of exactly the rows of the full frame that are inside the
\* boundary, in the same order, none with the marker; no polygon test is ever
\* run for a point outside the boundary.
C3_TwoViews ==
    /\ \A t \in scanned : geom[t[1]].inB
    /\ gpc = "done" =>
          LET inside == {k \in 1..Len(fullGrid) :
                            geom[<<fullGrid[k].i, fullGrid[k].j>>].inB}
          IN /\ Len(fullGrid) = NPoints
             /\ \A k \in 1..Len(fullGrid) :
                   /\ <<fullGrid[k].i, fullGrid[k].j>> = PointAt(k - 1)
                   /\ k \notin inside => fullGrid[k].idQuartiere = NaN
             /\ Len(grid) = Cardinality(inside)
             /\ \A a \in 1..Len(grid) : \E k \in inside : grid[a] = fullGrid[k]
             /\ \A a, b \in 1..Len(grid) : a < b => Rank(grid[a]) < Rank(grid[b])
             /\ \A a \in 1..Len(grid) : grid[a].idQuartiere # NaN

\* C3 witness: a finished grid that keeps two points and drops a point that
\* lies between them in lattice order
C3_Witness ==
    /\ gpc = "done"
    /\ Len(grid) >= 2
    /\ \E k \in 1..Len(fullGrid) :
          /\ fullGrid[k].idQuartiere = NaN
          /\ Rank(grid[1]) < Rank(fullGrid[k])
          /\ Rank(fullGrid[k]) < Rank(grid[Len(grid)])

C10_FirstMatchWins ==
    \A p \in Visited :
       (bInPerimeter[p] /\ geom[p].zs # {}) =>
          /\ IDquartiere[p] = IdQuartiereCol[FirstRow(geom[p].zs)]
          /\ \A r \in Rows : r > FirstRow(geom[p].zs) => <<p, r>> \notin scanned

\* C10 witness: a point inside both polygons has been classified
C10_Witness ==
    \E p \in Visited :
       /\ Cardinality(geom[p].zs) >= 2
       /\ IDquartiere[p] = IdQuartiereCol[0]
       /\ <<p, 0>> \in scanned

(***************************************************************************)
(* Factories: enumerations, tables and inputs.                             *)
(***************************************************************************)
ServiceTypes == {"School", "Library", "TransportStop", "Pharmacy", "UrbanGreen"}

\* AgeGroup.all()
AgeGroupAll == {"Newborn", "Kinder", "ChildPrimary", "ChildMid", "ChildHigh"}

\* AgeGroup.all_but(excluded)
AllBut(excluded) == AgeGroupAll \ excluded

\* {g: w for g in groups}
Weights(groups, w) == [g \in groups |-> w]

\* SchoolFactory.load: typeAgeDict
SchoolTypeAgeDict ==
    ("SCUOLA PRIMARIA" :> Weights({"ChildPrimary"}, 1))
    @@ ("SCUOLA SECONDARIA I GRADO" :> Weights({"ChildMid"}, 1))
    @@ ("SCUOLA SECONDARIA II GRADO" :> Weights({"ChildHigh"}, 1))

\* LibraryFactory.load: typeAgeDict
LibraryTypeAgeDict ==
    ("Specializzata" :> Weights(AgeGroupAll, 1))
    @@ ("Importante non specializzata" :> Weights(AgeGroupAll, 1))
    @@ ("Pubblica" :> Weights(AgeGroupAll, 1))
    @@ ("NON SPECIFICATA" :> Weights({"ChildPrimary"}, 1))
    @@ ("Scolastica" :> Weights({"ChildPrimary"}, 1))
    @@ ("Istituto di insegnamento superiore" :> Weights({"ChildPrimary"}, 1))
    @@ ("Nazionale" :> Weights({"ChildPrimary"}, 1))

\* TransportStopFactory.load: gtfsTypesDict
gtfsTypesDict == (0 :> "Tram") @@ (1 :> "Metro") @@ (3 :> "Bus")

\* A scale is a fraction <<numerator, denominator>>; <<0, 0>> is the NaN that
\* 0.0 / 0.0 gives.
ScaleEq(a, b) == a[1] * b[2] = b[1] * a[2]

\* TransportStopFactory.load: scaleDict
scaleDict(r) == (0 :> <<r, 1>>) @@ (1 :> <<2 * r, 1>>) @@ (3 :> <<r, 1>>)

NegativeWeights == Weights(AllBut({"Newborn", "Kinder"}), -1)

AllGroupsWeights == Weights(AgeGroupAll, 1)

\* TransportStopFactory.load: the ageDiffusionIn of every stop
TransportAgeDiffusion == Weights(AllBut({"Newborn", "Kinder"}), 1)

\* the meanRadius arguments tried: None, negative, zero, positive
Radii == {<<>>, <<-1>>, <<0>>, <<1>>}

\* ORDINESCUOLA values met in a file: the three known ones and another
SchoolTypesIn == DOMAIN SchoolTypeAgeDict \cup {"SCUOLA DELL'INFANZIA"}

\* tipologia-funzionale values met in a file
LibraryTypesIn == {"Pubblica", "Scolastica", "Specializzata", "Biblioteca di quartiere"}

\* route_type values met in a file: tram, metro, rail (not mapped), bus
RouteTypesIn == {0, 1, 2, 3}

\* ALUNNI values met in a file
AlunniIn == {0, 1, 4}

\* the rows a file of this service can hold
RawRecords(f) ==
    CASE f = "School" ->
            {[tipo |-> t, alunni |-> a, route_type |-> -1] :
                t \in SchoolTypesIn, a \in AlunniIn}
      [] f = "Library" ->
            {[tipo |-> t, alunni |-> 0, route_type |-> -1] : t \in LibraryTypesIn}
      [] f = "TransportStop" ->
            {[tipo |-> "", alunni |-> 0, route_type |-> rt] : rt \in RouteTypesIn}
      [] OTHER -> {[tipo |-> "", alunni |-> 0, route_type |-> -1]}

(***************************************************************************)
(* ServiceUnit (src.models.core).                                          *)
(***************************************************************************)
\* None is <<>>, a value v is <<v>>. Python's truth value of a number or
\* None held that way
TruthyNumber(x) == x # <<>> /\ x[1] # 0

\* Python's truth value of a dict or None held that way
Truthy(x) == x # <<>> /\ DOMAIN x[1] # {}

\* scale > 0 is required of a unit
ScaleAccepted(scale) == scale[2] > 0 /\ scale[1] > 0

\* the cutoff distance of each age group, a function of the scale and of the
\* group's weight and of nothing else
ComputeThresholds(scale, ageDiffusion) ==
    [g \in DOMAIN ageDiffusion |-> <<scale, ageDiffusion[g]>>]

\* the scale of a unit built without scaleIn
DefaultScale == <<1, 1>>

\* the unit a successful ServiceUnit(...) call builds
ServiceUnit(service, name, position, ageDiffusionIn, scaleIn, kernelThresholds, attributesIn) ==
    [service |-> service,
     name |-> name,
     position |-> position,
     ageDiffusion |-> ageDiffusionIn,
     scale |-> scaleIn,
     kernelThresholdsIn |-> kernelThresholds,
     kerThresholds |-> IF Truthy(kernelThresholds) THEN kernelThresholds[1]
                       ELSE ComputeThresholds(scaleIn, ageDiffusionIn),
     attributes |-> attributesIn]

(***************************************************************************)
(* Factories: pure parts of load.                                          *)
(***************************************************************************)
nUnits == Len(rawData)

\* extract_locations: the i-th location is built from row i
Locations == [i \in 1..nUnits |-> i]

\* x ** .5 on the pupil counts tried
SqrtOf(a) == CHOOSE r \in 0..a : r * r = a

RECURSIVE SumSeq(_)
SumSeq(q) == IF q = <<>> THEN 0 ELSE Head(q) + SumSeq(Tail(q))

\* lines 101-103: sqrt(ALUNNI) / mean(sqrt(ALUNNI)) * meanRadius, as the
\* fraction sqrt_i * n * r / sum
SchoolScales(r) ==
    LET roots == [i \in 1..nUnits |-> SqrtOf(rawData[i].alunni)]
        total == SumSeq(roots)
    IN [i \in 1..nUnits |-> IF total = 0 THEN <<0, 0>>
                            ELSE <<roots[i] * nUnits * r, total>>]

\* Series.unique(): the values in order of first appearance
RECURSIVE Unique(_, _)
Unique(q, seen) ==
    IF q = <<>> THEN <<>>
    ELSE IF Head(q) \in seen THEN Unique(Tail(q), seen)
         ELSE <<Head(q)>> \o Unique(Tail(q), seen \cup {Head(q)})

TypeCol == [i \in 1..nUnits |-> rawData[i].tipo]

RouteTypeCol == [i \in 1..nUnits |-> rawData[i].route_type]

TypesUnchecked(found, known) == TRUE

\* the asserts on the type column: every value met is a key of the table
TypesRecognized(found, known) == found \subseteq known

\* propertData[typeCol] == scType
BThisGroup(scType) == [i \in 1..nUnits |-> TypeCol[i] = scType]

\* the rows of typeData, by their place in the file
TypeRows(scType) == MaskSelect([i \in 1..nUnits |-> i], BThisGroup(scType))

AllLocations(scType) == Locations

\* typeLocations
TypeLocations(scType) == MaskSelect(Locations, BThisGroup(scType))

\* the (type, row, location) triples of the nested loops of SchoolFactory and
\* LibraryFactory, in the order the units are created
RECURSIVE GroupedPlan(_)
GroupedPlan(types) ==
    IF types = <<>> THEN <<>>
    ELSE LET scType == Head(types)
             rows == TypeRows(scType)
             locs == TypeLocations(scType)
         IN [u \in 1..Len(rows) |-> [tipo |-> scType, row |-> rows[u], loc |-> locs[u]]]
            \o GroupedPlan(Tail(types))

\* the same for the single loop of the other factories
FlatPlan == [i \in 1..nUnits |-> [tipo |-> "", row |-> i, loc |-> Locations[i]]]

Plan ==
    IF factory \in {"School", "Library"} THEN GroupedPlan(Unique(TypeCol, {}))
    ELSE FlatPlan

OneSlot(unitRouteType) == 0

\* the key of thresholdsDict read and written for a stop
CacheSlot(unitRouteType) == unitRouteType

NeverStore(cached) == FALSE

\* 'if not cachedThresholds'
CacheMiss(cached) == ~Truthy(cached)

(***************************************************************************)
(* Factories: load.                                                        *)
(***************************************************************************)
LoadInit ==
    /\ factory \in ServiceTypes
    /\ meanRadius \in Radii
    /\ rawData \in UNION {[1..n -> RawRecords(factory)] : n \in 0..MaxUnits}
    /\ lpc = "start"
    /\ lerr = "none"
    /\ scaleData = <<>>
    /\ thresholdsDict = <<>>
    /\ cachedThresholds = <<>>
    /\ unitList = <<>>
    /\ returned = <<>>

\* 'assert meanRadius' and extract_locations (the files carry Lat and Long)
BeginLoad ==
    /\ lpc = "start"
    /\ IF TruthyNumber(meanRadius)
       THEN lpc' = "prepare" /\ lerr' = lerr
       ELSE lpc' = "error" /\ lerr' = "AssertionError: radius"
    /\ UNCHANGED <<factory, rawData, meanRadius, scaleData, thresholdsDict,
                   cachedThresholds, unitList, returned>>
    /\ UNCHANGED gridVars
    /\ UNCHANGED cityVars

\* from extract_locations to the loop: the assert on the types, the school
\* scales, the empty caches
Prepare ==
    /\ lpc = "prepare"
    /\ LET recognized ==
              CASE factory = "School" ->
                      TypesRecognized({TypeCol[i] : i \in 1..nUnits}, DOMAIN SchoolTypeAgeDict)
                [] factory = "Library" ->
                      TypesRecognized({TypeCol[i] : i \in 1..nUnits}, DOMAIN LibraryTypeAgeDict)
                [] factory = "TransportStop" ->
                      TypesRecognized({RouteTypeCol[i] : i \in 1..nUnits}, DOMAIN gtfsTypesDict)
                [] OTHER -> TRUE
       IN IF recognized
          THEN /\ lpc' = "loop"
               /\ lerr' = lerr
               /\ scaleData' = IF factory = "School" THEN SchoolScales(meanRadius[1])
                               ELSE scaleData
               /\ thresholdsDict' = IF factory = "TransportStop"
                                    THEN [t \in DOMAIN scaleDict(meanRadius[1]) |-> <<>>]
                                    ELSE thresholdsDict
          ELSE /\ lpc' = "error"
               /\ lerr' = "AssertionError: types"
               /\ UNCHANGED <<scaleData, thresholdsDict>>
    /\ UNCHANGED <<factory, rawData, meanRadius, cachedThresholds, unitList, returned>>
    /\ UNCHANGED gridVars
    /\ UNCHANGED cityVars

\* the arguments of the next ServiceUnit call, or the key that is missing
NextCall ==
    LET item == Plan[Len(unitList) + 1]
        rt == rawData[item.row].route_type
    IN CASE factory = "School" ->
              IF item.tipo \notin DOMAIN SchoolTypeAgeDict THEN [keyError |-> TRUE]
              ELSE [keyError |-> FALSE, row |-> item.row, loc |-> item.loc,
                    ageDiffusionIn |-> SchoolTypeAgeDict[item.tipo],
                    scaleIn |-> scaleData[item.row],
                    kernelThresholds |-> <<>>,
                    attributesIn |-> item.tipo]
         [] factory = "Library" ->
              IF item.tipo \notin DOMAIN LibraryTypeAgeDict THEN [keyError |-> TRUE]
              ELSE [keyError |-> FALSE, row |-> item.row, loc |-> item.loc,
                    ageDiffusionIn |-> LibraryTypeAgeDict[item.tipo],
                    scaleIn |-> DefaultScale,
                    kernelThresholds |-> <<>>,
                    attributesIn |-> item.tipo]
         [] factory = "TransportStop" ->
              IF rt \notin DOMAIN thresholdsDict THEN [keyError |-> TRUE]
              ELSE [keyError |-> FALSE, row |-> item.row, loc |-> item.loc,
                    ageDiffusionIn |-> TransportAgeDiffusion,
                    scaleIn |-> scaleDict(meanRadius[1])[rt],
                    kernelThresholds |-> thresholdsDict[CacheSlot(rt)],
                    attributesIn |-> gtfsTypesDict[rt]]
         [] factory = "Pharmacy" ->
              [keyError |-> FALSE, row |-> item.row, loc |-> item.loc,
               ageDiffusionIn |-> Weights(AgeGroupAll, 1),
               scaleIn |-> <<meanRadius[1], 1>>,
               kernelThresholds |-> cachedThresholds,
               attributesIn |-> ""]
         [] OTHER ->
              [keyError |-> FALSE, row |-> item.row, loc |-> item.loc,
               ageDiffusionIn |-> Weights(AgeGroupAll, 1),
               scaleIn |-> <<meanRadius[1], 1>>,
               kernelThresholds |-> <<>>,
               attributesIn |-> ""]

\* one iteration of the loop that creates the units
CreateUnit ==
    /\ lpc = "loop"
    /\ Len(unitList) < Len(Plan)
    /\ LET call == NextCall
       IN IF call.keyError
          THEN /\ lpc' = "error"
               /\ lerr' = "KeyError"
               /\ UNCHANGED <<unitList, thresholdsDict, cachedThresholds>>
          ELSE IF ~ScaleAccepted(call.scaleIn)
          THEN /\ lpc' = "error"
               /\ lerr' = "ConfigurationError"
               /\ UNCHANGED <<unitList, thresholdsDict, cachedThresholds>>
          ELSE LET thisUnit == ServiceUnit(factory, call.row, call.loc,
                                           call.ageDiffusionIn, call.scaleIn,
                                           call.kernelThresholds, call.attributesIn)
                   rt == rawData[call.row].route_type
               IN /\ unitList' = Append(unitList, thisUnit)
                  /\ thresholdsDict' =
                        IF factory = "TransportStop" /\ CacheMiss(call.kernelThresholds)
                        THEN [thresholdsDict EXCEPT ![CacheSlot(rt)] = <<thisUnit.kerThresholds>>]
                        ELSE thresholdsDict
                  /\ cachedThresholds' =
                        IF factory = "Pharmacy" /\ CacheMiss(call.kernelThresholds)
                        THEN <<thisUnit.kerThresholds>>
                        ELSE cachedThresholds
                  /\ UNCHANGED <<lpc, lerr>>
    /\ UNCHANGED <<factory, rawData, meanRadius, scaleData, returned>>
    /\ UNCHANGED gridVars
    /\ UNCHANGED cityVars

\* 'return unitList'
ReturnUnits ==
    /\ lpc = "loop"
    /\ Len(unitList) = Len(Plan)
    /\ returned' = <<unitList>>
    /\ lpc' = "done"
    /\ UNCHANGED <<factory, rawData, meanRadius, lerr, scaleData, thresholdsDict,
                   cachedThresholds, unitList>>
    /\ UNCHANGED gridVars
    /\ UNCHANGED cityVars

LoadNext == BeginLoad \/ Prepare \/ CreateUnit \/ ReturnUnits

\* no GridMaker is built while a file is loaded
LoadStart ==
    /\ LoadInit
    /\ gridStep = 2
    /\ longKm = 1
    /\ latKm = 1
    /\ GridIdle
    /\ CityIdle

LoadSpec == LoadStart /\ [][LoadNext]_vars

(***************************************************************************)
(* Factories: properties.                                                  *)
(***************************************************************************)
\* whether the argument of load is a positive number
RadiusPositive == meanRadius # <<>> /\ meanRadius[1] > 0

\* whether the file holds a type that has no entry in the factory's table
UnknownTypeInFile ==
    \E i \in 1..nUnits :
       \/ factory = "School" /\ rawData[i].tipo \notin DOMAIN SchoolTypeAgeDict
       \/ factory = "Library" /\ rawData[i].tipo \notin DOMAIN LibraryTypeAgeDict
       \/ factory = "TransportStop" /\ rawData[i].route_type \notin DOMAIN gtfsTypesDict

\* whether two units of the loader share one cache entry: the stops of one
\* route type, all pharmacies, and no two units of the other loaders
SameCacheEntry(u, v) ==
    \/ factory = "TransportStop" /\ u.attributes = v.attributes
    \/ factory = "Pharmacy"

\* C4: a unit created with cached thresholds got them from an earlier unit
\* that computed them itself and has the same scale and the same
\* ageDiffusion.
C4_CacheKeepsProfile ==
    \A i \in 1..Len(unitList) :
       Truthy(unitList[i].kernelThresholdsIn) =>
          \E j \in 1..(i - 1) :
             /\ ~Truthy(unitList[j].kernelThresholdsIn)
             /\ unitList[j].kerThresholds = unitList[i].kernelThresholdsIn[1]
             /\ ScaleEq(unitList[j].scale, unitList[i].scale)
             /\ unitList[j].ageDiffusion = unitList[i].ageDiffusion

\* C4 witness: a stop was created from the cache after a stop of another
\* scale had been created
C4_Witness ==
    /\ factory = "TransportStop"
    /\ \E i \in 1..Len(unitList) :
          /\ Truthy(unitList[i].kernelThresholdsIn)
          /\ \E j \in 1..(i - 1) : ~ScaleEq(unitList[j].scale, unitList[i].scale)

C6_UnknownTypeFailsLoad ==
    UnknownTypeInFile =>
       /\ unitList = <<>>
       /\ returned = <<>>
       /\ lpc \in {"start", "prepare", "error"}

\* C6 witness: a load with a valid radius failed on the types of a file whose
\* first row has a known type and whose last row has not
C6_Witness ==
    /\ lpc = "error"
    /\ lerr = "AssertionError: types"
    /\ nUnits >= 2
    /\ factory = "School"
    /\ rawData[1].tipo \in DOMAIN SchoolTypeAgeDict
    /\ rawData[nUnits].tipo \notin DOMAIN SchoolTypeAgeDict

\* C7 as stated: with a missing, zero or negative meanRadius no load ever
\* creates a unit or returns, and with a zero or negative gridStep no
\* GridMaker classifies a point or finishes.
C7_NonPositiveRejected ==
    /\ ~RadiusPositive => unitList = <<>> /\ lpc # "done"
    /\ gridStep <= 0 => Visited = {} /\ gpc # "done"

\* the GridMaker half of C7 alone
C7_GridStepRejected == gridStep <= 0 => Visited = {} /\ gpc # "done"

SchoolWithoutPupilsFails ==
    (factory = "School" /\ \E i \in 1..nUnits : rawData[i].alunni = 0) => returned = <<>>

\* what the attributes of a unit must say, read from the row at this place
\* of the file
AttributesOfRow(i) ==
    CASE factory \in {"School", "Library"} -> rawData[i].tipo
      [] factory = "TransportStop" -> gtfsTypesDict[rawData[i].route_type]
      [] OTHER -> ""

\* C11: every unit created carries the loader's service type, its position
\* is the location of the row its name and its attributes come from, no row
\* gives two units, and a load that returns hands back nUnits units, one for
\* every row of the file.
C11_OneUnitPerRecord ==
    /\ \A k \in 1..Len(unitList) :
          /\ unitList[k].service = factory
          /\ unitList[k].name \in 1..nUnits
          /\ unitList[k].position = Locations[unitList[k].name]
          /\ unitList[k].attributes = AttributesOfRow(unitList[k].position)
    /\ \A k, l \in 1..Len(unitList) : k < l => unitList[k].name # unitList[l].name
    /\ lpc = "done" =>
          /\ returned = <<unitList>>
          /\ Len(unitList) = nUnits
          /\ {unitList[k].name : k \in 1..Len(unitList)} = 1..nUnits

\* C11 witness: a school load has returned three units from a file whose
\* second row is of another type than the first and the third, so the units
\* are not in file order
C11_Witness ==
    /\ factory = "School"
    /\ lpc = "done"
    /\ Len(unitList) = 3
    /\ rawData[1].tipo = rawData[3].tipo
    /\ rawData[1].tipo # rawData[2].tipo
    /\ unitList[2].name = 3
    /\ unitList[3].position = 2

(***************************************************************************)
(* UnitFactory.createLoader and make_loaders_for_city.                     *)
(***************************************************************************)
\* the loader objects: each __init__ sets its own servicetype
SchoolFactory == [class |-> "SchoolFactory", servicetype |-> "School"]

LibraryFactory == [class |-> "LibraryFactory", servicetype |-> "Library"]

TransportStopFactory == [class |-> "TransportStopFactory", servicetype |-> "TransportStop"]

PharmacyFactory == [class |-> "PharmacyFactory", servicetype |-> "Pharmacy"]

UrbanGreenFactory == [class |-> "UrbanGreenFactory", servicetype |-> "UrbanGreen"]

\* createLoader: the if/elif chain; the else branch prints and returns None
createLoader(serviceType) ==
    IF serviceType = "School" THEN <<SchoolFactory>>
    ELSE IF serviceType = "Library" THEN <<LibraryFactory>>
    ELSE IF serviceType = "TransportStop" THEN <<TransportStopFactory>>
    ELSE IF serviceType = "Pharmacy" THEN <<PharmacyFactory>>
    ELSE <<>>

\* s.label
Label(serviceType) == serviceType

\* the services a city can list, each once, in any order
CityServiceLists ==
    {q \in UNION {[1..n -> ServiceTypes] : n \in 0..Cardinality(ServiceTypes)} :
        \A a, b \in 1..Len(q) : a # b => q[a] # q[b]}

CityInit ==
    /\ cityServices \in CityServiceLists
    /\ loaders = <<>>
    /\ cpc = "start"

\* one step of the dict comprehension of make_loaders_for_city
MakeLoader ==
    /\ cpc = "start"
    /\ Cardinality(DOMAIN loaders) < Len(cityServices)
    /\ LET s == cityServices[Cardinality(DOMAIN loaders) + 1]
       IN loaders' = (Label(s) :> createLoader(s)) @@ loaders
    /\ UNCHANGED <<cityServices, cpc>>
    /\ UNCHANGED gridVars
    /\ UNCHANGED loadVars

\* the dict is returned
ReturnLoaders ==
    /\ cpc = "start"
    /\ Cardinality(DOMAIN loaders) = Len(cityServices)
    /\ cpc' = "done"
    /\ UNCHANGED <<cityServices, loaders>>
    /\ UNCHANGED gridVars
    /\ UNCHANGED loadVars

CityNext == MakeLoader \/ ReturnLoaders

CityStart ==
    /\ CityInit
    /\ LoadIdle
    /\ gridStep = 2
    /\ longKm = 1
    /\ latKm = 1
    /\ GridIdle

CitySpec == CityStart /\ [][CityNext]_vars

\* C12 as stated: every loader stored for a service of the city is a loader
\* (not None) whose servicetype is that service.
C12_EveryServiceHasLoader ==
    \A label \in DOMAIN loaders :
       /\ loaders[label] # <<>>
       /\ loaders[label][1].servicetype = label

\* what does hold: the four services of the if/elif chain get their loader
C12_DispatchedServices ==
    \A label \in DOMAIN loaders :
       label # "UrbanGreen" =>
          /\ loaders[label] # <<>>
          /\ loaders[label][1].servicetype = label

\* C13: every stop created has weight 1 for each age group but Newborn and
\* Kinder and no key for these two, whatever its route type and whether its
\* thresholds were computed or came from the cache.
C13_StopAgeGroups ==
    factory = "TransportStop" =>
       \A k \in 1..Len(unitList) :
          /\ DOMAIN unitList[k].ageDiffusion = AgeGroupAll \ {"Newborn", "Kinder"}
          /\ "Newborn" \notin DOMAIN unitList[k].ageDiffusion
          /\ "Kinder" \notin DOMAIN unitList[k].ageDiffusion
          /\ \A g \in DOMAIN unitList[k].ageDiffusion : unitList[k].ageDiffusion[g] = 1

\* C13 witness: a stop load has returned stops of two route types, one of
\* them created from the cache
C13_Witness ==
    /\ factory = "TransportStop"
    /\ lpc = "done"
    /\ \E k, l \in 1..Len(unitList) :
          /\ unitList[k].attributes # unitList[l].attributes
          /\ unitList[k].kernelThresholdsIn # <<>>
          /\ unitList[l].kernelThresholdsIn = <<>>

====
